---- MODULE Spec2Model ----
(***************************************************************************)
(* A model of mapbox::util::variant<Types...> (src/variant.hpp).           *)
(*                                                                         *)
(* The class template is instantiated at variant<double, int, std::string>.*)
(* A value handed to the converting constructor may also be a              *)
(* `const char*` ("cstr"), which is no alternative but converts to         *)
(* std::string.  A handful of variant objects (the slots 1..NumVariants)   *)
(* are constructed, assigned, read, compared, visited and destroyed; slot  *)
(* 0 is the local `temp` of the converting assignment operators.           *)
(*                                                                         *)
(* Payloads are small naturals.  A double is kept in half units (the       *)
(* stored number 3 is the double 1.5), so that int -> double and           *)
(* double -> int are real conversions and not the identity.                *)
(***************************************************************************)
EXTENDS Integers, Sequences, FiniteSets, TLC

\* ------------------------------------------------------------------ bounds
NumVariants == 2        \* variant objects that may exist at the same time
MaxVal == 1             \* largest int / string payload (a double: 2 * MaxVal half units)

\* ------------------------------------------------------- the instantiation
Types == <<"double", "int", "string">>      \* the pack Types... in declared order
Alternatives == {Types[i] : i \in 1..Len(Types)}
Bases == Alternatives \cup {"cstr"}         \* unqualified types a caller may pass
Categories == {"rvalue", "lvalue", "const_lvalue"}

Slots == 1..NumVariants
temp == 0

ValuesOf(base) == IF base = "double" THEN 0..(2 * MaxVal) ELSE 0..MaxVal

\* std::size_t(-1): larger than every index of an alternative
invalid_value == 2147483647

\* ----------------------------------------------------------- type resolver
\* A type as the traits see it: std::remove_reference<T>::type, which keeps a
\* top-level const.
QType(base, const) == [base |-> base, const |-> const]

\* template argument deduction for `T&&` followed by std::remove_reference
remove_reference(base, cat) == QType(base, cat = "const_lvalue")

is_same(T, First) == (~T.const) /\ T.base = First

is_convertible(T, First) ==
    \/ T.base = First
    \/ T.base \in {"int", "double"} /\ First \in {"int", "double"}
    \/ T.base = "cstr" /\ First = "string"

\* what the conversion T -> target does to the payload
Convert(from, to, v) ==
    IF from = "int" /\ to = "double" THEN 2 * v
    ELSE IF from = "double" /\ to = "int" THEN v \div 2
    ELSE v

RECURSIVE direct_type(_, _)
direct_type(T, Ts) ==
    IF Ts = <<>> THEN invalid_value
    ELSE IF is_same(T, Head(Ts)) THEN Len(Tail(Ts))
    ELSE direct_type(T, Tail(Ts))

RECURSIVE convertible_type(_, _)
convertible_type(T, Ts) ==
    IF Ts = <<>> THEN invalid_value
    ELSE IF is_convertible(T, Head(Ts)) THEN Len(Tail(Ts))
    ELSE convertible_type(T, Tail(Ts))

value_traits(T, Ts) ==
    IF direct_type(T, Ts) = invalid_value
    THEN convertible_type(T, Ts)
    ELSE direct_type(T, Ts)

RECURSIVE has_type(_, _)
has_type(T, Ts) ==
    IF Ts = <<>> THEN FALSE
    ELSE is_same(T, Head(Ts)) \/ has_type(T, Tail(Ts))

RECURSIVE is_valid_type(_, _)
is_valid_type(T, Ts) ==
    IF Ts = <<>> THEN FALSE
    ELSE is_convertible(T, Head(Ts)) \/ is_valid_type(T, Tail(Ts))

\* std::tuple_element<sizeof...(Types) - index - 1, std::tuple<Types...>>
target_type(index) == Types[Len(Types) - index]

\* position in the declared order, 0-based
which(v) == Len(Types) - v.type_index - 1

\* -------------------------------------------------------------------- state
VARIABLES
    variant,    \* slot -> [alive, type_index, data]
    leaked,     \* types of objects whose storage was reused or released
                \* without their destructor having run
    ub,         \* a destructor or constructor acted on storage that holds
                \* no live object of the type it assumed
    last        \* the operation that just completed and what it returned

vars == <<variant, leaked, ub, last>>

\* aligned_storage before anything is constructed in it / after a destructor
Raw == [type |-> "none", val |-> 0, live |-> FALSE]

\* a slot in which no variant object exists
NoObject == [alive |-> FALSE, type_index |-> invalid_value, data |-> Raw]

NoCall == <<>>

\* op: the operation; a, b: the slots it worked on (b = 0: none); T, cat, v:
\* the type, value category and value the caller passed; exc: the exception
\* that left it; ret: a boolean result; val: a payload read; calls: the
\* visitor's invocations, each the sequence of its arguments; dtors: the
\* alternative destructors it ran
Op(op, a, b, T, cat, v, exc, ret, val, calls, dtors) ==
    [op |-> op, a |-> a, b |-> b, T |-> T, cat |-> cat, v |-> v,
     exc |-> exc, ret |-> ret, val |-> val, calls |-> calls, dtors |-> dtors]

\* what a mutating operation reports
Did(op, a, b, T, cat, v, m) ==
    Op(op, a, b, T, cat, v, m.exc, FALSE, 0, NoCall, m.dtors)

\* the machine an operation runs on: the objects plus the bookkeeping
Machine == [v |-> variant, leaked |-> leaked, ub |-> ub, dtors |-> 0, exc |-> "none"]

Commit(m) ==
    /\ variant' = m.v
    /\ leaked' = m.leaked
    /\ ub' = m.ub

\* ------------------------------------------------- objects in the storage
\* new (&data) T(...): an object of type T starts to live in slot s's storage.
\* Whatever lived there before is gone without a destructor call.
PlacementNew(m, s, T, val) ==
    [m EXCEPT !.v[s].data = [type |-> T, val |-> val, live |-> TRUE],
              !.leaked = IF m.v[s].data.live THEN @ \cup {m.v[s].data.type} ELSE @]

\* reinterpret_cast<T*>(data)->~T()
Destructor(m, s, T) ==
    [m EXCEPT !.v[s].data = Raw,
              !.dtors = @ + 1,
              !.ub = @ \/ ~(m.v[s].data.live /\ m.v[s].data.type = T)]

\* mutant: the helper value-initialises the new T and copies nothing
CopyConstructor_value_init(m, from, to, T, fail) ==
    IF fail THEN [m EXCEPT !.exc = "alternative"]
    ELSE PlacementNew(m, to, T, 0)

\* T(*reinterpret_cast<const T*>(old_value)), which may throw
CopyConstructor(m, from, to, T, fail) ==
    IF fail THEN [m EXCEPT !.exc = "alternative"]
    ELSE [PlacementNew(m, to, T, m.v[from].data.val)
            EXCEPT !.ub = @ \/ ~(m.v[from].data.live /\ m.v[from].data.type = T)]

\* T(std::move(*reinterpret_cast<T*>(old_value))): the source stays a live T;
\* a moved-from std::string holds a valid but unspecified value (residue)
MoveConstructor(m, from, to, T, fail, residue) ==
    IF fail THEN [m EXCEPT !.exc = "alternative"]
    ELSE LET n == PlacementNew(m, to, T, m.v[from].data.val)
         IN [n EXCEPT !.v[from].data.val = IF T = "string" /\ from # to THEN residue ELSE @,
                      !.ub = @ \/ ~(m.v[from].data.live /\ m.v[from].data.type = T)]

\* ------------------------------------------------------ lifecycle dispatch
RECURSIVE variant_helper_destroy(_, _, _, _)
variant_helper_destroy(Ts, id, m, s) ==
    IF Ts = <<>> THEN m
    ELSE IF id = Len(Tail(Ts)) THEN Destructor(m, s, Head(Ts))
    ELSE variant_helper_destroy(Tail(Ts), id, m, s)

RECURSIVE variant_helper_move(_, _, _, _, _, _, _)
variant_helper_move(Ts, old_id, m, from, to, fail, residue) ==
    IF Ts = <<>> THEN m
    ELSE IF old_id = Len(Tail(Ts)) THEN MoveConstructor(m, from, to, Head(Ts), fail, residue)
    ELSE variant_helper_move(Tail(Ts), old_id, m, from, to, fail, residue)

RECURSIVE variant_helper_copy(_, _, _, _, _, _)
variant_helper_copy(Ts, old_id, m, from, to, fail) ==
    IF Ts = <<>> THEN m
    ELSE IF old_id = Len(Tail(Ts)) THEN CopyConstructor(m, from, to, Head(Ts), fail)
    ELSE variant_helper_copy(Tail(Ts), old_id, m, from, to, fail)

\* ------------------------------------------------- constructors, destructor
\* A constructor that throws leaves no variant object behind.
Abandon(m, s) == [m EXCEPT !.v[s] = NoObject]

\* variant()
variant_default(m, s, fail) ==
    LET m1 == [m EXCEPT !.v[s] = [alive |-> TRUE, type_index |-> Len(Types) - 1, data |-> Raw]]
    IN IF fail THEN Abandon([m1 EXCEPT !.exc = "alternative"], s)
       ELSE PlacementNew(m1, s, Types[1], 0)

\* variant(no_init)
variant_no_init(m, s) ==
    [m EXCEPT !.v[s] = [alive |-> TRUE, type_index |-> invalid_value, data |-> Raw]]

\* variant(T && val) noexcept, T already stripped of its reference
variant_converting(m, s, T, val) ==
    LET index == value_traits(T, Types)
        m1 == [m EXCEPT !.v[s] = [alive |-> TRUE, type_index |-> index, data |-> Raw]]
    IN PlacementNew(m1, s, target_type(index), Convert(T.base, target_type(index), val))

\* variant(variant<Types...> const& old)
variant_copy(m, s, old, fail) ==
    LET m1 == [m EXCEPT !.v[s] = [alive |-> TRUE, type_index |-> m.v[old].type_index, data |-> Raw]]
        m2 == variant_helper_copy(Types, m1.v[old].type_index, m1, old, s, fail)
    IN IF m2.exc # "none" THEN Abandon(m2, s) ELSE m2

\* mutant: the move constructor marks the source as emptied
variant_move_resets_source(m, s, old, residue) ==
    LET m1 == [m EXCEPT !.v[s] = [alive |-> TRUE, type_index |-> m.v[old].type_index, data |-> Raw]]
        m2 == variant_helper_move(Types, m1.v[old].type_index, m1, old, s, FALSE, residue)
    IN [m2 EXCEPT !.v[old].type_index = invalid_value]

\* variant(variant<Types...> && old) noexcept
variant_move(m, s, old, residue) ==
    LET m1 == [m EXCEPT !.v[s] = [alive |-> TRUE, type_index |-> m.v[old].type_index, data |-> Raw]]
    IN variant_helper_move(Types, m1.v[old].type_index, m1, old, s, FALSE, residue)

\* mutant: the destructor releases the storage and destroys nothing
variant_destructor_no_destroy(m, s) ==
    [m EXCEPT !.v[s] = NoObject,
              !.leaked = IF m.v[s].data.live THEN @ \cup {m.v[s].data.type} ELSE @]

\* ~variant() noexcept; the storage goes away with the object
variant_destructor(m, s) ==
    LET m1 == variant_helper_destroy(Types, m.v[s].type_index, m, s)
    IN [m1 EXCEPT !.v[s] = NoObject,
                  !.leaked = IF m1.v[s].data.live THEN @ \cup {m1.v[s].data.type} ELSE @]

\* --------------------------------------------------------------- assignment
copy_assign(m, lhs, rhs, fail) ==
    LET m1 == variant_helper_destroy(Types, m.v[lhs].type_index, m, lhs)
        m2 == [m1 EXCEPT !.v[lhs].type_index = invalid_value]
        m3 == variant_helper_copy(Types, m2.v[rhs].type_index, m2, rhs, lhs, fail)
    IN IF m3.exc # "none" THEN m3
       ELSE [m3 EXCEPT !.v[lhs].type_index = m3.v[rhs].type_index]

\* mutant: the tag is not reset to invalid_value before the reconstruction
move_assign_keeps_tag(m, lhs, rhs, fail, residue) ==
    LET m1 == variant_helper_destroy(Types, m.v[lhs].type_index, m, lhs)
        m3 == variant_helper_move(Types, m1.v[rhs].type_index, m1, rhs, lhs, fail, residue)
    IN IF m3.exc # "none" THEN m3
       ELSE [m3 EXCEPT !.v[lhs].type_index = m3.v[rhs].type_index]

move_assign(m, lhs, rhs, fail, residue) ==
    LET m1 == variant_helper_destroy(Types, m.v[lhs].type_index, m, lhs)
        m2 == [m1 EXCEPT !.v[lhs].type_index = invalid_value]
        m3 == variant_helper_move(Types, m2.v[rhs].type_index, m2, rhs, lhs, fail, residue)
    IN IF m3.exc # "none" THEN m3
       ELSE [m3 EXCEPT !.v[lhs].type_index = m3.v[rhs].type_index]

\* template <typename T> operator=(T && rhs) noexcept, for a value of an
\* alternative or convertible type: T is the stripped type of rhs
\* (what the move leaves in temp is destroyed with temp, unread: residue 0)
assign_forwarding(m, lhs, T, val) ==
    LET m1 == variant_converting(m, temp, T, val)
        m2 == move_assign(m1, lhs, temp, FALSE, 0)
    IN variant_destructor(m2, temp)

\* the same template chosen for `x = y` with y a non-const lvalue variant
\* (T = variant&, a better match than variant const&): temp is copy-constructed
assign_forwarding_variant(m, lhs, rhs) ==
    LET m1 == variant_copy(m, temp, rhs, FALSE)
        m2 == move_assign(m1, lhs, temp, FALSE, 0)
    IN variant_destructor(m2, temp)

\* template <typename T> operator=(T const& rhs): temp(rhs) sees a const T
assign_const_ref(m, lhs, base, val, fail) ==
    LET m1 == variant_converting(m, temp, QType(base, TRUE), val)
        m2 == copy_assign(m1, lhs, temp, fail)
    IN variant_destructor(m2, temp)

\* set<T>(args...): T is whatever the caller names, constructed from one value
set(m, s, T, val, fail) ==
    LET m1 == variant_helper_destroy(Types, m.v[s].type_index, m, s)
        m2 == [m1 EXCEPT !.v[s].type_index = invalid_value]
    IN IF fail THEN [m2 EXCEPT !.exc = "alternative"]
       ELSE [PlacementNew(m2, s, T, val)
               EXCEPT !.v[s].type_index = direct_type(QType(T, FALSE), Types)]

\* ---------------------------------------------------------------- observers
is(v, T) == v.type_index = direct_type(QType(T, FALSE), Types)

valid(v) == v.type_index # invalid_value

get_type_index(v) == v.type_index

\* mutant: the tag is not compared, the storage is handed out as T
get_unchecked(v, T) ==
    [exc |-> "none", type |-> T, val |-> v.data.val]

\* get<T>(): a reference to the storage seen as T, or bad_variant_access
get(v, T) ==
    IF v.type_index = direct_type(QType(T, FALSE), Types)
    THEN [exc |-> "none", type |-> T, val |-> v.data.val]
    ELSE [exc |-> "bad_variant_access", type |-> T, val |-> 0]

\* --------------------------------------------------------- visitor dispatch
\* mutant: the storage is handed to the visitor although get<T>() threw
Invoke1_unchecked(g) ==
    [exc |-> "none", calls |-> <<  <<[type |-> g.type, val |-> g.val]>>  >>]

\* f(unwrapper<T>::apply_const(v.get<T>())): the visitor is invoked with the
\* payload, or the get throws first
Invoke1(g) ==
    IF g.exc # "none" THEN [exc |-> g.exc, calls |-> NoCall]
    ELSE [exc |-> "none", calls |-> <<  <<[type |-> g.type, val |-> g.val]>>  >>]

Invoke2(g0, g1) ==
    IF g0.exc # "none" THEN [exc |-> g0.exc, calls |-> NoCall]
    ELSE IF g1.exc # "none" THEN [exc |-> g1.exc, calls |-> NoCall]
    ELSE [exc |-> "none",
          calls |-> <<  <<[type |-> g0.type, val |-> g0.val],
                          [type |-> g1.type, val |-> g1.val]>>  >>]

\* mutant: the scan compares the tag with sizeof...(Types) + 1
RECURSIVE dispatcher_off_by_one(_, _)
dispatcher_off_by_one(Ts, v) ==
    IF Len(Ts) = 1 THEN Invoke1(get(v, Head(Ts)))
    ELSE IF get_type_index(v) = Len(Ts) THEN Invoke1(get(v, Head(Ts)))
    ELSE dispatcher_off_by_one(Tail(Ts), v)

RECURSIVE dispatcher(_, _)
dispatcher(Ts, v) ==
    IF Len(Ts) = 1 THEN Invoke1(get(v, Head(Ts)))
    ELSE IF get_type_index(v) = Len(Tail(Ts)) THEN Invoke1(get(v, Head(Ts)))
    ELSE dispatcher(Tail(Ts), v)

\* binary_dispatcher_rhs<F, V, R, T0, T1, Types...>: lhs holds T0
RECURSIVE binary_dispatcher_rhs(_, _, _, _)
binary_dispatcher_rhs(T0, Ts, lhs, rhs) ==
    IF Len(Ts) = 1 THEN Invoke2(get(lhs, T0), get(rhs, Head(Ts)))
    ELSE IF get_type_index(rhs) = Len(Tail(Ts)) THEN Invoke2(get(lhs, T0), get(rhs, Head(Ts)))
    ELSE binary_dispatcher_rhs(T0, Tail(Ts), lhs, rhs)

\* mutant: the lhs scan hands the operands to the visitor in exchanged order
RECURSIVE binary_dispatcher_lhs_exchanged(_, _, _, _)
binary_dispatcher_lhs_exchanged(T0, Ts, lhs, rhs) ==
    IF Len(Ts) = 1 THEN Invoke2(get(rhs, T0), get(lhs, Head(Ts)))
    ELSE IF get_type_index(lhs) = Len(Tail(Ts)) THEN Invoke2(get(rhs, T0), get(lhs, Head(Ts)))
    ELSE binary_dispatcher_lhs_exchanged(T0, Tail(Ts), lhs, rhs)

\* binary_dispatcher_lhs<F, V, R, T0, T1, Types...>: rhs holds T0
RECURSIVE binary_dispatcher_lhs(_, _, _, _)
binary_dispatcher_lhs(T0, Ts, lhs, rhs) ==
    IF Len(Ts) = 1 THEN Invoke2(get(lhs, Head(Ts)), get(rhs, T0))
    ELSE IF get_type_index(lhs) = Len(Tail(Ts)) THEN Invoke2(get(lhs, Head(Ts)), get(rhs, T0))
    ELSE binary_dispatcher_lhs(T0, Tail(Ts), lhs, rhs)

RECURSIVE binary_dispatcher(_, _, _)
binary_dispatcher(Ts, v0, v1) ==
    IF Len(Ts) = 1 THEN Invoke2(get(v0, Head(Ts)), get(v1, Head(Ts)))
    ELSE IF get_type_index(v0) = Len(Tail(Ts))
         THEN IF get_type_index(v0) = get_type_index(v1)
              THEN Invoke2(get(v0, Head(Ts)), get(v1, Head(Ts)))
              ELSE binary_dispatcher_rhs(Head(Ts), Tail(Ts), v0, v1)
    ELSE IF get_type_index(v1) = Len(Tail(Ts))
         THEN binary_dispatcher_lhs(Head(Ts), Tail(Ts), v0, v1)
    ELSE binary_dispatcher(Tail(Ts), v0, v1)

\* ----------------------------------------------------------- unary visitors
\* The visitors F handed to apply_visitor(f, v): a reader returns a result
\* computed from its argument, a writer also assigns through the T& it is
\* given (the non-const overload), a thrower throws from its body.
Visitors == {"reader", "writer", "thrower"}

\* what f returns for an argument
visitor_returns(arg) ==
    (IF arg.type = "double" THEN 10 ELSE IF arg.type = "int" THEN 20 ELSE 30) + arg.val

\* what a writer assigns to its argument
visitor_writes(arg) == (arg.val + 1) % Cardinality(ValuesOf(arg.type))

\* visit(v, f) / apply_visitor(f, v): `return dispatcher<...>::apply(v, f)`;
\* nothing on the way catches what f throws or touches what it returns
visit(v, F) ==
    LET d == dispatcher(Types, v)
    IN IF d.exc # "none"
       THEN [exc |-> d.exc, calls |-> NoCall, result |-> 0, v |-> v]
       ELSE IF F = "thrower"
       THEN [exc |-> "visitor", calls |-> d.calls, result |-> 0, v |-> v]
       ELSE [exc |-> "none", calls |-> d.calls,
             result |-> visitor_returns(d.calls[1][1]),
             v |-> IF F = "writer"
                   THEN [v EXCEPT !.data.val = visitor_writes(d.calls[1][1])]
                   ELSE v]

\* --------------------------------------------------------------- comparison
\* the alternatives' own operators, on two payloads of one alternative
equal_comp(lhs, rhs) == lhs = rhs

\* mutant: the comparison functor uses <= for <
less_comp_or_equal(lhs, rhs) == lhs <= rhs

less_comp(lhs, rhs) == lhs < rhs

\* comparer<Variant, Comp>::operator()(T const& rhs_content), Comp by name
comparer(lhs, Comp, rhs_content) ==
    LET lhs_content == get(lhs, rhs_content.type)
    IN IF lhs_content.exc # "none"
       THEN [exc |-> lhs_content.exc, ret |-> FALSE, compared |-> FALSE]
       ELSE [exc |-> "none",
             ret |-> IF Comp = "equal_comp"
                     THEN equal_comp(lhs_content.val, rhs_content.val)
                     ELSE less_comp(lhs_content.val, rhs_content.val),
             compared |-> TRUE]

\* visit(rhs, visitor) with visitor = comparer<variant, Comp>(*this)
visit_comparer(this, rhs, Comp) ==
    LET d == dispatcher(Types, rhs)
    IN IF d.exc # "none" THEN [exc |-> d.exc, ret |-> FALSE, compared |-> FALSE]
       ELSE comparer(this, Comp, d.calls[1][1])

\* mutant: the tags are not compared before the visit
operator_eq_no_tag_check(this, rhs) ==
    visit_comparer(this, rhs, "equal_comp")

operator_eq(this, rhs) ==
    IF get_type_index(this) # get_type_index(rhs)
    THEN [exc |-> "none", ret |-> FALSE, compared |-> FALSE]
    ELSE visit_comparer(this, rhs, "equal_comp")

operator_less(this, rhs) ==
    IF get_type_index(this) # get_type_index(rhs)
    THEN [exc |-> "none", ret |-> get_type_index(this) < get_type_index(rhs), compared |-> FALSE]
    ELSE visit_comparer(this, rhs, "less_comp")

\* ------------------------------------------------------------------ actions
\* One action per public operation.  `fail` says that the alternative's
\* constructor throws if the operation gets to call it.  The operations
\* declared noexcept (variant(T&&), variant(variant&&), operator=(T&&)) take no
\* `fail`: an exception inside them ends the program, and the run with it.
Exists(s) == variant[s].alive

DefaultConstruct(s, fail) ==
    /\ ~Exists(s)
    /\ LET m == variant_default(Machine, s, fail)
       IN Commit(m) /\ last' = Did("variant()", s, 0, Types[1], "none", 0, m)

NoInitConstruct(s) ==
    /\ ~Exists(s)
    /\ LET m == variant_no_init(Machine, s)
       IN Commit(m) /\ last' = Did("variant(no_init)", s, 0, "none", "none", 0, m)

ConvertingConstruct(s, base, cat, v) ==
    /\ ~Exists(s)
    /\ is_valid_type(remove_reference(base, cat), Types)
    /\ LET m == variant_converting(Machine, s, remove_reference(base, cat), v)
       IN Commit(m) /\ last' = Did("variant(T&&)", s, 0, base, cat, v, m)

CopyConstruct(s, old, fail) ==
    /\ ~Exists(s)
    /\ Exists(old)
    /\ LET m == variant_copy(Machine, s, old, fail)
       IN Commit(m) /\ last' = Did("variant(variant const&)", s, old, "none", "none", 0, m)

MoveConstruct(s, old, residue) ==
    /\ ~Exists(s)
    /\ Exists(old)
    /\ LET m == variant_move(Machine, s, old, residue)
       IN Commit(m) /\ last' = Did("variant(variant&&)", s, old, "none", "none", 0, m)

CopyAssign(lhs, rhs, fail) ==
    /\ Exists(lhs)
    /\ Exists(rhs)
    /\ LET m == copy_assign(Machine, lhs, rhs, fail)
       IN Commit(m) /\ last' = Did("operator=(variant const&)", lhs, rhs, "none", "none", 0, m)

MoveAssign(lhs, rhs, fail, residue) ==
    /\ Exists(lhs)
    /\ Exists(rhs)
    /\ LET m == move_assign(Machine, lhs, rhs, fail, residue)
       IN Commit(m) /\ last' = Did("operator=(variant&&)", lhs, rhs, "none", "none", 0, m)

\* x = y with y a non-const lvalue variant
AssignVariantLvalue(lhs, rhs) ==
    /\ Exists(lhs)
    /\ Exists(rhs)
    /\ LET m == assign_forwarding_variant(Machine, lhs, rhs)
       IN Commit(m) /\ last' = Did("operator=(T&&) [T = variant&]", lhs, rhs, "none", "none", 0, m)

\* x = value, the value an rvalue or a non-const lvalue
AssignValue(lhs, base, v) ==
    /\ Exists(lhs)
    /\ is_valid_type(QType(base, FALSE), Types)
    /\ LET m == assign_forwarding(Machine, lhs, QType(base, FALSE), v)
       IN Commit(m) /\ last' = Did("operator=(T&&)", lhs, 0, "none", "none", 0, m)

\* x = value, the value a const lvalue
AssignConstValue(lhs, base, v, fail) ==
    /\ Exists(lhs)
    /\ is_valid_type(QType(base, TRUE), Types)
    /\ LET m == assign_const_ref(Machine, lhs, base, v, fail)
       IN Commit(m) /\ last' = Did("operator=(T const&)", lhs, 0, "none", "none", 0, m)

Set(s, T, v, fail) ==
    /\ Exists(s)
    /\ LET m == set(Machine, s, T, v, fail)
       IN Commit(m) /\ last' = Did("set", s, 0, T, "none", v, m)

Destroy(s) ==
    /\ Exists(s)
    /\ LET m == variant_destructor(Machine, s)
       IN Commit(m) /\ last' = Did("~variant()", s, 0, "none", "none", 0, m)

\* var.get<T>() and get<T>(var); T is a declared alternative, or there is no
\* such member
Get(s, T) ==
    /\ Exists(s)
    /\ direct_type(QType(T, FALSE), Types) # invalid_value
    /\ LET g == get(variant[s], T)
       IN last' = Op("get", s, 0, T, "none", 0, g.exc, FALSE, g.val, NoCall, 0)
    /\ UNCHANGED <<variant, leaked, ub>>

Equal(a, b) ==
    /\ Exists(a)
    /\ Exists(b)
    /\ LET r == operator_eq(variant[a], variant[b])
       IN last' = Op("operator==", a, b, "none", "none", 0, r.exc, r.ret, 0, NoCall, 0)
    /\ UNCHANGED <<variant, leaked, ub>>

Less(a, b) ==
    /\ Exists(a)
    /\ Exists(b)
    /\ LET r == operator_less(variant[a], variant[b])
       IN last' = Op("operator<", a, b, "none", "none", 0, r.exc, r.ret, 0, NoCall, 0)
    /\ UNCHANGED <<variant, leaked, ub>>

\* apply_visitor(f, v) with a visitor of type F that records its argument
Visit(s, F) ==
    /\ Exists(s)
    /\ LET r == visit(variant[s], F)
       IN /\ variant' = [variant EXCEPT ![s] = r.v]
          /\ last' = Op("apply_visitor(f, v)", s, 0, F, "none", 0, r.exc, FALSE, r.result, r.calls, 0)
    /\ UNCHANGED <<leaked, ub>>

\* apply_visitor(f, v0, v1) with a visitor that records its arguments
BinaryVisit(a, b) ==
    /\ Exists(a)
    /\ Exists(b)
    /\ LET r == binary_dispatcher(Types, variant[a], variant[b])
       IN last' = Op("apply_visitor(f, v0, v1)", a, b, "none", "none", 0, r.exc, FALSE, 0, r.calls, 0)
    /\ UNCHANGED <<variant, leaked, ub>>

\* ------------------------------------------------------------ specification
\* what a move may leave behind in v: anything, if v holds a std::string
Residues(v) == IF v.data.live /\ v.data.type = "string" THEN ValuesOf("string") ELSE {0}

Init ==
    /\ variant = [s \in {temp} \cup Slots |-> NoObject]
    /\ leaked = {}
    /\ ub = FALSE
    /\ last = Op("none", 0, 0, "none", "none", 0, "none", FALSE, 0, NoCall, 0)

Next ==
    \/ \E s \in Slots, fail \in BOOLEAN : DefaultConstruct(s, fail)
    \/ \E s \in Slots : NoInitConstruct(s)
    \/ \E s \in Slots, base \in Bases, cat \in Categories :
          \E v \in ValuesOf(base) : ConvertingConstruct(s, base, cat, v)
    \/ \E s \in Slots, old \in Slots, fail \in BOOLEAN : CopyConstruct(s, old, fail)
    \/ \E s \in Slots, old \in Slots :
          \E residue \in Residues(variant[old]) : MoveConstruct(s, old, residue)
    \/ \E lhs \in Slots, rhs \in Slots, fail \in BOOLEAN : CopyAssign(lhs, rhs, fail)
    \/ \E lhs \in Slots, rhs \in Slots, fail \in BOOLEAN :
          \E residue \in Residues(variant[rhs]) : MoveAssign(lhs, rhs, fail, residue)
    \/ \E lhs \in Slots, rhs \in Slots : AssignVariantLvalue(lhs, rhs)
    \/ \E lhs \in Slots, base \in Bases :
          \E v \in ValuesOf(base) : AssignValue(lhs, base, v)
    \/ \E lhs \in Slots, base \in Bases, fail \in BOOLEAN :
          \E v \in ValuesOf(base) : AssignConstValue(lhs, base, v, fail)
    \/ \E s \in Slots, T \in Bases, fail \in BOOLEAN :
          \E v \in ValuesOf(T) : Set(s, T, v, fail)
    \/ \E s \in Slots : Destroy(s)
    \/ \E s \in Slots, T \in Alternatives : Get(s, T)
    \/ \E a \in Slots, b \in Slots : Equal(a, b)
    \/ \E a \in Slots, b \in Slots : Less(a, b)
    \/ \E a \in Slots, b \in Slots : BinaryVisit(a, b)
    \/ \E s \in Slots, F \in Visitors : Visit(s, F)

Spec == Init /\ [][Next]_vars

\* sanity of the bookkeeping: a valid tag names the live object in the storage
TagNamesLiveObject ==
    \A s \in Slots :
        Exists(s) /\ valid(variant[s]) =>
            /\ variant[s].data.live
            /\ variant[s].data.type = target_type(variant[s].type_index)

\* The runs of C3: no variant(no_init), no constructor of an alternative
\* throws, and set<T> names a declared alternative.
NextNoEmpty ==
    \/ \E s \in Slots : DefaultConstruct(s, FALSE)
    \/ \E s \in Slots, base \in Bases, cat \in Categories :
          \E v \in ValuesOf(base) : ConvertingConstruct(s, base, cat, v)
    \/ \E s \in Slots, old \in Slots : CopyConstruct(s, old, FALSE)
    \/ \E s \in Slots, old \in Slots :
          \E residue \in Residues(variant[old]) : MoveConstruct(s, old, residue)
    \/ \E lhs \in Slots, rhs \in Slots : CopyAssign(lhs, rhs, FALSE)
    \/ \E lhs \in Slots, rhs \in Slots :
          \E residue \in Residues(variant[rhs]) : MoveAssign(lhs, rhs, FALSE, residue)
    \/ \E lhs \in Slots, rhs \in Slots : AssignVariantLvalue(lhs, rhs)
    \/ \E lhs \in Slots, base \in Bases :
          \E v \in ValuesOf(base) : AssignValue(lhs, base, v)
    \/ \E lhs \in Slots, base \in Bases :
          \E v \in ValuesOf(base) : AssignConstValue(lhs, base, v, FALSE)
    \/ \E s \in Slots, T \in Alternatives :
          \E v \in ValuesOf(T) : Set(s, T, v, FALSE)
    \/ \E s \in Slots : Destroy(s)

SpecNoEmpty == Init /\ [][NextNoEmpty]_vars

\* The runs of C14: three variants a, b, c, each constructed from a value of
\* an alternative, are compared with operator== and operator<.
Operands == 1..3

Inputs == UNION {{<<T, v>> : v \in ValuesOf(T)} : T \in Alternatives}

\* variant<double, int, std::string> a(x), b(y), c(z);
RECURSIVE ConstructOperands(_, _, _)
ConstructOperands(m, x, n) ==
    IF n = 0 THEN m
    ELSE variant_converting(ConstructOperands(m, x, n - 1), n, QType(x[n][1], FALSE), x[n][2])

InitOrder ==
    \E x \in [Operands -> Inputs] :
        LET m == ConstructOperands([v |-> [s \in {temp} \cup Operands |-> NoObject],
                                    leaked |-> {}, ub |-> FALSE, dtors |-> 0, exc |-> "none"],
                                   x, Cardinality(Operands))
        IN /\ variant = m.v
           /\ leaked = m.leaked
           /\ ub = m.ub
           /\ last = Op("none", 0, 0, "none", "none", 0, "none", FALSE, 0, NoCall, 0)

NextOrder ==
    \/ \E a \in Operands, b \in Operands : Equal(a, b)
    \/ \E a \in Operands, b \in Operands : Less(a, b)

SpecOrder == InitOrder /\ [][NextOrder]_vars

\* ------------------------------------------------------------------- claims
\* the operands of the operation that just completed
A == variant[last.a]
B == variant[last.b]
HoldsAlternative(v) == v.alive /\ valid(v)

\* C1: ordering across alternatives follows the declared order: when a and b
\* hold alternatives at declared positions i < j, a < b is true and b < a is
\* false, whatever the payloads.
C1_OrderFollowsDeclaredOrder ==
    (/\ last.op = "operator<"
     /\ HoldsAlternative(A) /\ HoldsAlternative(B)
     /\ which(A) # which(B))
    => (last.exc = "none" /\ last.ret = (which(A) < which(B)))

\* C2: a variant constructed from a value v of a declared alternative T,
\* passed as rvalue, lvalue or const lvalue, holds T: is<T>(), valid() and
\* get<T>() == v.
C2_ConstructedFromAlternativeHoldsIt ==
    (last.op = "variant(T&&)" /\ last.T \in Alternatives)
    => (/\ is(A, last.T)
        /\ valid(A)
        /\ get(A, last.T).exc = "none"
        /\ get(A, last.T).val = last.v)

\* C3: without variant(no_init) and without a failing constructor, every
\* variant is valid and exactly one is<T>() holds after every completed
\* operation, assignments from the same instance included.
C3_AlwaysExactlyOneAlternative ==
    \A s \in Slots :
        Exists(s) =>
            /\ valid(variant[s])
            /\ Cardinality({T \in Alternatives : is(variant[s], T)}) = 1

\* the machine in the state an operation left behind
MachineAfter == [v |-> variant', leaked |-> leaked', ub |-> ub', dtors |-> 0, exc |-> "none"]

\* no destructor ran on storage without a live object of its type, and no
\* object of an alternative type lost its storage undestroyed
C4_NoAlternativeLostOrDestroyedTwice ==
    /\ ~ub
    /\ leaked \cap Alternatives = {}

\* ~variant() runs one destructor on a valid tag and none on INVALID
C4_DestructorRunsOnceOrNotAtAll ==
    last'.op = "~variant()" =>
        last'.dtors = IF valid(variant[last'.a]) THEN 1 ELSE 0

\* C4: every alternative value constructed in a variant's storage has its
\* destructor run exactly once, no later than the variant's destruction and
\* never twice; destroying a variant whose tag is INVALID runs no destructor.
C4_DestroyedExactlyOnce ==
    /\ [](C4_NoAlternativeLostOrDestroyedTwice)
    /\ [][C4_DestructorRunsOnceOrNotAtAll]_vars

\* a variant holding an alternative was destroyed and ran its destructor once
C4_Witness ==
    /\ last.op = "~variant()"
    /\ last.dtors = 1
    /\ ~ub
    /\ leaked \cap Alternatives = {}

\* a step of get<T>() on a variant that holds another alternative
C5_Step ==
    (/\ last'.op = "get"
     /\ valid(variant[last'.a])
     /\ ~is(variant[last'.a], last'.T))
    => (/\ last'.exc = "bad_variant_access"
        /\ variant' = variant
        /\ \E U \in Alternatives \ {last'.T} :
              /\ is(variant'[last'.a], U)
              /\ get(variant'[last'.a], U) = get(variant[last'.a], U)
              /\ get(variant'[last'.a], U).exc = "none")

\* C5: get<T>() on a variant holding another alternative U throws
\* bad_variant_access and leaves the variant as it was: is<U>() still holds
\* and get<U>() returns the same value.
C5_GetMismatchThrowsAndKeeps == [][C5_Step]_vars

C5_Witness ==
    /\ last.op = "get"
    /\ last.exc = "bad_variant_access"
    /\ valid(A)
    /\ ~is(A, last.T)

\* a step of copy-assignment, move-assignment or set<T> that an exception of
\* the alternative's constructor left
C6_Step ==
    (/\ last'.op \in {"operator=(variant const&)", "operator=(variant&&)", "set"}
     /\ last'.exc = "alternative")
    => (/\ ~valid(variant'[last'.a])
        /\ variant'[last'.a].alive
        /\ ~(variant'[last'.a].data.live /\ variant'[last'.a].data.type \in Alternatives)
        /\ last'.dtors = (IF valid(variant[last'.a]) THEN 1 ELSE 0)
        /\ ~ub'
        /\ variant_destructor(MachineAfter, last'.a).dtors = 0
        /\ ~variant_destructor(MachineAfter, last'.a).ub)

C7_Step ==
    (/\ last'.op = "operator=(variant&&)"
     /\ last'.exc = "none"
     /\ valid(variant[last'.b]))
    => (/\ variant'[last'.a].type_index = variant[last'.b].type_index
        /\ variant'[last'.a].data.live
        /\ variant'[last'.a].data.val = variant[last'.b].data.val)

\* C7: after a completed move-assignment x = move(y) with y holding an
\* alternative, x has the tag and the payload y had before, for every x and y.
C7_MoveAssignTakesSourceValue == [][C7_Step]_vars

\* a completed copy of x into another instance
C8_CopyStep ==
    (/\ last'.op \in {"variant(variant const&)", "operator=(variant const&)",
                      "operator=(T&&) [T = variant&]"}
     /\ last'.exc = "none"
     /\ last'.a # last'.b
     /\ valid(variant[last'.b]))
    => (/\ operator_eq(variant'[last'.a], variant'[last'.b]).exc = "none"
        /\ operator_eq(variant'[last'.a], variant'[last'.b]).ret
        /\ variant'[last'.a].type_index = variant'[last'.b].type_index
        /\ variant'[last'.b] = variant[last'.b])

\* a step of set<T>
C8_SetStep ==
    last'.op = "set" =>
        \A s \in Slots \ {last'.a} : variant'[s] = variant[s]

\* C8: a copy c of x (copy construction, or copy assignment into another
\* instance) compares equal to x and has x's tag; a later set<T> on c leaves
\* x's tag and payload as they were.
C8_CopyEqualAndIsolated == [][C8_CopyStep /\ C8_SetStep]_vars

\* a copy assignment replaced the value of another instance by an equal one
C8_Witness ==
    /\ last.op = "operator=(variant const&)"
    /\ last.exc = "none"
    /\ last.a # last.b
    /\ last.dtors = 1
    /\ HoldsAlternative(A) /\ HoldsAlternative(B)
    /\ operator_eq(A, B).ret

\* C9: a == b is false when the active alternatives differ, whatever the
\* payloads; when they are the same it is the alternative's own equality of
\* the two payloads.
C9_EqualityByTagThenPayload ==
    (/\ last.op = "operator=="
     /\ HoldsAlternative(A) /\ HoldsAlternative(B))
    => (/\ last.exc = "none"
        /\ last.ret = (/\ A.data.type = B.data.type
                       /\ equal_comp(A.data.val, B.data.val)))

\* different alternatives with coincident payloads compared unequal
C9_Witness ==
    /\ last.op = "operator=="
    /\ HoldsAlternative(A) /\ HoldsAlternative(B)
    /\ A.data.type # B.data.type
    /\ A.data.val = B.data.val
    /\ last.ret = FALSE

\* C10: apply_visitor(f, v0, v1) invokes f exactly once, with v0's payload at
\* v0's alternative first and v1's payload at v1's alternative second, and
\* throws no bad_variant_access.
C10_BinaryVisitInOperandOrder ==
    (/\ last.op = "apply_visitor(f, v0, v1)"
     /\ HoldsAlternative(A) /\ HoldsAlternative(B))
    => (/\ last.exc = "none"
        /\ last.calls = << << [type |-> A.data.type, val |-> A.data.val],
                              [type |-> B.data.type, val |-> B.data.val] >> >>)

\* v1's alternative is declared before v0's: the scan matches v1 first
C10_Witness ==
    /\ last.op = "apply_visitor(f, v0, v1)"
    /\ HoldsAlternative(A) /\ HoldsAlternative(B)
    /\ which(B) < which(A)
    /\ A.data.val # B.data.val
    /\ Len(last.calls) = 1

\* a step of apply_visitor(f, v) on a variant that holds an alternative
C11_Step ==
    (/\ last'.op = "apply_visitor(f, v)"
     /\ valid(variant[last'.a]))
    => LET x == variant[last'.a]
           arg == [type |-> Types[which(x) + 1], val |-> x.data.val]
       IN /\ last'.calls = << <<arg>> >>
          /\ last'.exc = (IF last'.T = "thrower" THEN "visitor" ELSE "none")
          /\ (last'.T # "thrower" => last'.val = visitor_returns(arg))
          /\ variant'[last'.a].type_index = x.type_index
          /\ \A s \in Slots \ {last'.a} : variant'[s] = variant[s]

\* C11: apply_visitor(f, v) on a variant holding the alternative at declared
\* position i invokes f exactly once, on the payload taken at alternative i,
\* returns f's result and leaves the tag unchanged; what f throws reaches the
\* caller as it is.
C11_UnaryVisitCallsOnceAtTag == [][C11_Step]_vars

\* a writer visited a variant holding the middle alternative and returned
C11_Witness ==
    /\ last.op = "apply_visitor(f, v)"
    /\ last.T = "writer"
    /\ last.exc = "none"
    /\ HoldsAlternative(A)
    /\ which(A) = 1
    /\ Len(last.calls) = 1
    /\ last.calls[1][1].val # A.data.val

\* a completed step of set<T>(args...)
C12_Step ==
    (/\ last'.op = "set"
     /\ last'.exc = "none")
    => (/\ last'.dtors = (IF valid(variant[last'.a]) THEN 1 ELSE 0)
        /\ ~ub'
        /\ variant'[last'.a].data = [type |-> last'.T, val |-> last'.v, live |-> TRUE]
        /\ variant'[last'.a].type_index = value_traits(QType(last'.T, FALSE), Types)
        /\ valid(variant'[last'.a])
        /\ variant_destructor(MachineAfter, last'.a).dtors = 1
        /\ ~variant_destructor(MachineAfter, last'.a).ub
        /\ variant_destructor(MachineAfter, last'.a).leaked = leaked')

\* C12: for every current tag and every type T that set<T> accepts, after a
\* completed set<T>(args...) the previously active value has been destroyed
\* exactly once, the storage holds a T built from args, the tag is
\* resolve(T), valid() is true, and the new value is the one the variant's
\* destruction destroys.
C12_SetReconstructsInPlace == [][C12_Step]_vars

\* a completed step of variant y(std::move(x))
C13_Step ==
    (/\ last'.op = "variant(variant&&)"
     /\ valid(variant[last'.b]))
    => LET x == last'.b
           y == last'.a
           after_y == variant_destructor(MachineAfter, y)
           after_both == variant_destructor(after_y, x)
       IN /\ variant'[y].type_index = variant[x].type_index
          /\ variant'[x].type_index = variant[x].type_index
          /\ variant'[x].data.live
          /\ variant'[x].data.type = variant[x].data.type
          /\ after_y.dtors = 1
          /\ after_both.dtors = 2
          /\ ~after_both.ub
          /\ after_both.leaked = leaked'
          /\ variant_destructor(MachineAfter, x).dtors = 1

\* C13: after variant y(move(x)) y's tag equals x's tag, x's tag is what it
\* was before the move (not INVALID), and destroying both x and y runs that
\* alternative's destructor once for each of them.
C13_MoveConstructKeepsSourceTag == [][C13_Step]_vars

\* a std::string was moved out of x: x still holds a string, of another value
C13_Witness ==
    /\ last.op = "variant(variant&&)"
    /\ HoldsAlternative(A) /\ HoldsAlternative(B)
    /\ is(B, "string")
    /\ A.data.val # B.data.val

\* a < b and a == b as the operators compute them on the operands
Lt(a, b) == operator_less(variant[a], variant[b])
Eq(a, b) == operator_eq(variant[a], variant[b])

\* the comparison the program just made returned what the laws are stated of
C14_Observed ==
    /\ last.op = "operator<" => (last.exc = "none" /\ last.ret = Lt(last.a, last.b).ret)
    /\ last.op = "operator==" => (last.exc = "none" /\ last.ret = Eq(last.a, last.b).ret)

\* C14: over variants holding alternatives, operator< is a strict total order
\* consistent with operator==: irreflexive, transitive, and for any a and b
\* exactly one of a < b, b < a, a == b holds.
C14_LessIsStrictTotalOrder ==
    /\ C14_Observed
    /\ \A a \in Operands : ~Lt(a, a).ret
    /\ \A a \in Operands, b \in Operands, c \in Operands :
          Lt(a, b).ret /\ Lt(b, c).ret => Lt(a, c).ret
    /\ \A a \in Operands, b \in Operands :
          /\ Lt(a, b).exc = "none" /\ Eq(a, b).exc = "none"
          /\ \/ Lt(a, b).ret /\ ~Lt(b, a).ret /\ ~Eq(a, b).ret
             \/ ~Lt(a, b).ret /\ Lt(b, a).ret /\ ~Eq(a, b).ret
             \/ ~Lt(a, b).ret /\ ~Lt(b, a).ret /\ Eq(a, b).ret

\* a < b < c with a and b of one alternative and c of another, and a < c
\* was just computed
C14_Witness ==
    /\ last.op = "operator<"
    /\ last.a = 1 /\ last.b = 3
    /\ last.ret
    /\ Lt(1, 2).ret /\ Lt(2, 3).ret
    /\ variant[1].type_index = variant[2].type_index
    /\ variant[2].type_index # variant[3].type_index

\* a step of a visit or a comparison that meets an INVALID tag
C15_Step ==
    LET a == variant[last'.a]
        b == variant[last'.b]
    IN /\ (last'.op = "apply_visitor(f, v)" /\ ~valid(a))
            => (/\ last'.exc = "bad_variant_access"
                /\ last'.calls = NoCall
                /\ variant' = variant)
       /\ (last'.op = "apply_visitor(f, v0, v1)" /\ (~valid(a) \/ ~valid(b)))
            => (/\ last'.exc = "bad_variant_access"
                /\ last'.calls = NoCall
                /\ variant' = variant)
       /\ (last'.op = "operator==" /\ ~valid(a) /\ ~valid(b))
            => (/\ last'.exc = "bad_variant_access"
                /\ ~operator_eq(a, b).compared
                /\ variant' = variant)
       /\ (last'.op = "operator<" /\ ~valid(a) /\ ~valid(b))
            => (/\ last'.exc = "bad_variant_access"
                /\ ~operator_less(a, b).compared
                /\ variant' = variant)

\* C15: on an INVALID tag, unary apply_visitor, binary apply_visitor (either
\* operand INVALID) and operator== / operator< between two INVALID variants
\* invoke neither the visitor nor a comparison: bad_variant_access is thrown
\* and the tag stays INVALID.
C15_InvalidTagThrowsBadAccess == [][C15_Step]_vars

\* a binary visit of a variant holding an alternative and an INVALID one threw
C15_Witness ==
    /\ last.op = "apply_visitor(f, v0, v1)"
    /\ HoldsAlternative(A)
    /\ B.alive /\ ~valid(B)
    /\ last.exc = "bad_variant_access"
    /\ last.calls = NoCall

====
